---- MODULE Spec2Model ----
(***************************************************************************)
(* State-machine model of src/script.js (the PICHUKA side-scroller).       *)
(*                                                                         *)
(* Numbers.  The script computes in IEEE doubles.                          *)
(*   - Times are milliseconds (the unit of the frame timestamp).           *)
(*   - The position of a pipe is a double: the model computes the step of  *)
(*     a frame, every subtraction and every sum of the scoring and         *)
(*     eviction tests bit by bit, with the rounding of the script.         *)
(*   - The velocity of the bird is in 1/VScale pixels per reference frame  *)
(*     and its position in 1/PScale pixels, as exact decimals; with        *)
(*     millisecond timestamps every product of the physics is an integer   *)
(*     of these units.  The doubles of the script differ from them by less *)
(*     than 10^-12 pixels.                                                 *)
(*   - The stored high score is an exact decimal fraction num/den.         *)
(*                                                                         *)
(* DOM.  The rectangles read back by hasCollision are relative to the game *)
(* element, in 1/PScale pixels.  A pipe segment has the box the script     *)
(* wrote (left, top, width, height); the bird has the box that bounds it   *)
(* after the rotation placeBird() wrote.  That box is computed by the      *)
(* layout engine, not by the script: the model knows its edges to within   *)
(* Slack/PScale pixels, and a test of hasCollision that depends on less    *)
(* than that can give either answer.                                       *)
(***************************************************************************)
EXTENDS Integers, Sequences, FiniteSets, TLC

VARIABLES
  gameState,        \* state.gameState: "start" | "playing" | "gameover"
  birdY,            \* state.birdY            (1/PScale px)
  birdVelocity,     \* state.birdVelocity     (1/VScale px per frame)
  score,            \* state.score
  highScore,        \* state.highScore
  pipes,            \* state.pipes, in insertion order
  lastPipeTime,     \* state.lastPipeTime     (0 = unset)
  lastFrameTime,    \* state.lastFrameTime    (0 = unset)
  animationFrameId, \* state.animationFrameId (0 = null)
  storage,          \* localStorage[STORAGE_KEY]
  sizes,            \* what getSizes() returns now
  pending,          \* handles of the frame requests not yet delivered
  rafNext,          \* the handle the next requestAnimationFrame returns
  clock,            \* timestamp of the last delivered frame
  nextPipeId,       \* identity of the next pipe object created
  evicted,          \* pipes removed by the filter during this session
  saves,            \* number of saveHighScore() calls so far
  scoreEvents,      \* the scoring events of the last handler, in order
  nActivates,       \* number of activate events so far
  nResizes          \* number of resize events so far

vars == <<gameState, birdY, birdVelocity, score, highScore, pipes,
          lastPipeTime, lastFrameTime, animationFrameId, storage, sizes,
          pending, rafNext, clock, nextPipeId, evicted, saves, scoreEvents,
          nActivates, nResizes>>

----------------------------------------------------------------------------
(* Units *)
VScale == 1000
PScale == VScale * 1000   \* so that (v / VScale) * 60 * (dt / 1000) px = v * 60 * dt units

(* Program constants, src/script.js:15-24 *)
birdX == 90
gravity == 450            \* 0.45
jumpStrength == -8500     \* -8.5
pipeSpeed == 2400         \* 2.4
pipeWidth == 68
pipeGap == 170
pipeInterval == 1550
minPipeHeight == 70
MaxStepMs == 50           \* the 0.05 s clamp of gameLoop
EvictLine == -10          \* the margin of the filter in updatePipes

(* Bounds of the exploration *)
MaxFrames == 17
MaxActivates == 2
MaxResizes == 1
MaxTime == 2400
MaxShortFrames == 5       \* frames with jumps; frames under arbitrary timestamps

(* Inputs *)
Deltas == {50, 1550}
AnyDeltas == {0, 50, 100, 1550}        \* also a repeated timestamp, 0 at first
LiveDeltas == {50, 100}                \* of frames that keep coming
StrayDeltas == {1550}                  \* of a callback nobody requested
EvictDeltas == {25, 50}                \* of frames at 40 and at 20 per second
Rands == {<<0, 1>>, <<1, 2>>}          \* values of Math.random(), num/den
Sizes ==
  { [gameWidth |-> 30,  gameHeight |-> 500, groundHeight |-> 50,
     birdWidth |-> 30, birdHeight |-> 28],
    [gameWidth |-> 156, gameHeight |-> 500, groundHeight |-> 50,
     birdWidth |-> 30, birdHeight |-> 28] }
GateSizes ==                           \* available heights 300, 310, 311, 450
  { [gameWidth |-> 30, gameHeight |-> h, groundHeight |-> 50,
     birdWidth |-> 30, birdHeight |-> 28] : h \in {350, 360, 361, 500} }
GateRands == {<<0, 1>>, <<1, 8>>, <<1, 2>>, <<7, 8>>}
Absent == <<>>                          \* getItem() returns null
StoredItems == {<<"abc">>, <<"1">>, <<" 1.5">>}

Px(n) == n * PScale

Min_unclamped(a, b) == a

(* Math.min *)
Min(a, b) == IF a < b THEN a ELSE b

----------------------------------------------------------------------------
(* Persistence.  A number of the script is modelled exactly, as the
   fraction num / den with den a power of ten and no common factor 10; an
   item of localStorage is Absent (getItem gives null) or <<s>> for the
   stored string s.  Number() follows the StringToNumber grammar of the
   language; it is defined where num and den fit the integers of the
   checker. *)
Digit == <<"0", "1", "2", "3", "4", "5", "6", "7", "8", "9">>
HexDigit == Digit \o <<"a", "b", "c", "d", "e", "f">>
HexUpper == Digit \o <<"A", "B", "C", "D", "E", "F">>
(* StrWhiteSpaceChar of the StringToNumber grammar.  The second line holds
   the characters U+000B, U+00A0, U+FEFF and U+1680, written as themselves.
   The remaining ones (U+2000..U+200A, U+2028, U+2029, U+202F, U+205F,
   U+3000) cannot occur in a string of this language, so no item of the
   model contains them. *)
WhiteSpace ==
    {" ", "\t", "\n", "\r", "\f",
     "", " ", "﻿", " "}

Num(n, d) == [finite |-> TRUE, num |-> n, den |-> d]
NaN == [finite |-> FALSE, num |-> 0, den |-> 1]
Infinity == [finite |-> FALSE, num |-> 1, den |-> 1]

RECURSIVE Pow10(_)
Pow10(k) == IF k = 0 THEN 1 ELSE 10 * Pow10(k - 1)

(* the same value with the trailing zeros of the fraction removed *)
RECURSIVE Normal(_)
Normal(x) ==
  IF x.den > 1 /\ x.num % 10 = 0
  THEN Normal([x EXCEPT !.num = x.num \div 10, !.den = x.den \div 10])
  ELSE x

RECURSIVE Digits(_)
Digits(n) ==
  IF n < 10 THEN Digit[n + 1] ELSE Digits(n \div 10) \o Digit[(n % 10) + 1]

(* the digits of n, left-padded with zeros to k characters *)
RECURSIVE Padded(_, _)
Padded(n, k) == IF Len(Digits(n)) >= k THEN Digits(n) ELSE "0" \o Padded(n, k - 1)

(* String(x): Number::toString for the values the script can hold *)
String(x) ==
  LET a == IF x.num < 0 THEN 0 - x.num ELSE x.num
      sign == IF x.num < 0 THEN "-" ELSE ""
      k == Len(Digits(x.den)) - 1          \* number of fraction digits
      all == Digits(a)
  IN IF x.den = 1 THEN sign \o all
     ELSE IF k - Len(all) + 1 <= 6
       THEN sign \o Digits(a \div x.den) \o "." \o Padded(a % x.den, k)
     ELSE sign \o SubSeq(all, 1, 1)
            \o (IF Len(all) > 1 THEN "." \o SubSeq(all, 2, Len(all)) ELSE "")
            \o "e-" \o Digits(k - Len(all) + 1)

Ch(s, i) == IF i >= 1 /\ i <= Len(s) THEN SubSeq(s, i, i) ELSE ""

RECURSIVE TrimLeft(_)
TrimLeft(s) ==
  IF Len(s) > 0 /\ Ch(s, 1) \in WhiteSpace THEN TrimLeft(Tail(s)) ELSE s

RECURSIVE TrimRight(_)
TrimRight(s) ==
  IF Len(s) > 0 /\ Ch(s, Len(s)) \in WhiteSpace
  THEN TrimRight(SubSeq(s, 1, Len(s) - 1))
  ELSE s

(* the value of a digit character, 99 for any other character *)
CharValue(c) ==
  IF \E d \in 1..16 : HexDigit[d] = c
  THEN (CHOOSE d \in 1..16 : HexDigit[d] = c) - 1
  ELSE IF \E d \in 1..16 : HexUpper[d] = c
    THEN (CHOOSE d \in 1..16 : HexUpper[d] = c) - 1
  ELSE 99

IsDigit(c, base) == CharValue(c) < base

(* the first position at or after i that holds no digit *)
RECURSIVE DigitsEnd(_, _, _)
DigitsEnd(s, i, base) ==
  IF i <= Len(s) /\ IsDigit(Ch(s, i), base)
  THEN DigitsEnd(s, i + 1, base)
  ELSE i

(* the value of the digits s[i..j-1] in the given base, after acc *)
RECURSIVE ToInt(_, _, _, _, _)
ToInt(s, i, j, base, acc) ==
  IF i >= j THEN acc
  ELSE ToInt(s, i + 1, j, base, acc * base + CharValue(Ch(s, i)))

(* a literal with the prefix 0x, 0o or 0b: digits of that base, no sign *)
Prefixed(t, base) ==
  IF Len(t) > 2 /\ DigitsEnd(t, 3, base) = Len(t) + 1
  THEN Num(ToInt(t, 3, Len(t) + 1, base, 0), 1)
  ELSE NaN

(* a decimal literal: [sign] (digits [. [digits]] | . digits)
   [(e | E) [sign] digits], or [sign] Infinity *)
Decimal(t) ==
  LET signed == Ch(t, 1) \in {"+", "-"}
      neg == Ch(t, 1) = "-"
      p == IF signed THEN 2 ELSE 1
      i1 == DigitsEnd(t, p, 10)                    \* end of the integer digits
      dot == Ch(t, i1) = "."
      f == IF dot THEN i1 + 1 ELSE i1              \* start of the fraction
      i2 == DigitsEnd(t, f, 10)                    \* end of the fraction
      hasExp == Ch(t, i2) \in {"e", "E"}
      expSigned == Ch(t, i2 + 1) \in {"+", "-"}
      expNeg == Ch(t, i2 + 1) = "-"
      q == IF expSigned THEN i2 + 2 ELSE i2 + 1    \* start of the exponent
      i3 == DigitsEnd(t, q, 10)
      end == IF hasExp THEN i3 ELSE i2
      wellFormed == /\ i1 > p \/ i2 > f
                    /\ hasExp => i3 > q
                    /\ end = Len(t) + 1
      mantissa == ToInt(t, f, i2, 10, ToInt(t, p, i1, 10, 0))
      e == IF hasExp THEN ToInt(t, q, i3, 10, 0) ELSE 0
      exponent == (IF expNeg THEN 0 - e ELSE e) - (i2 - f)
      m == IF neg THEN 0 - mantissa ELSE mantissa
  IN IF SubSeq(t, p, Len(t)) = "Infinity" THEN Infinity
     ELSE IF ~wellFormed THEN NaN
     ELSE IF mantissa = 0 THEN Num(0, 1)
     ELSE IF exponent >= 0 THEN Num(m * Pow10(exponent), 1)
     ELSE Normal(Num(m, Pow10(0 - exponent)))

(* StringToNumber *)
StringToNumber(s) ==
  LET t == TrimRight(TrimLeft(s))
      prefix == SubSeq(t, 1, IF Len(t) < 2 THEN Len(t) ELSE 2)
  IN IF t = "" THEN Num(0, 1)
     ELSE IF prefix \in {"0x", "0X"} THEN Prefixed(t, 16)
     ELSE IF prefix \in {"0o", "0O"} THEN Prefixed(t, 8)
     ELSE IF prefix \in {"0b", "0B"} THEN Prefixed(t, 2)
     ELSE Decimal(t)

(* Number(localStorage.getItem(STORAGE_KEY)): null converts to 0 *)
Number(item) == IF item = Absent THEN Num(0, 1) ELSE StringToNumber(item[1])

(* a number of the script stripped of the flag: a score or a high score *)
Value(n, d) == [num |-> n, den |-> d]

Greater(x, y) == x.num * y.den > y.num * x.den

loadHighScore(item) ==
  LET saved == Number(item)
  IN IF saved.finite /\ saved.num > 0
     THEN Value(saved.num, saved.den)
     ELSE Value(0, 1)

(* localStorage.setItem(STORAGE_KEY, String(state.highScore)) *)
saveHighScore(hs) == <<String(hs)>>

----------------------------------------------------------------------------
(* Bird *)
resetBird_ignoresBirdHeight(sz) ==
  [birdY |-> Px(sz.gameHeight - sz.groundHeight) \div 2, birdVelocity |-> 0]

resetBird(sz) ==
  [birdY |-> Px(sz.gameHeight - sz.groundHeight - sz.birdHeight) \div 2,
   birdVelocity |-> 0]

resetGameState(sz) ==
  [score |-> 0, lastPipeTime |-> 0, lastFrameTime |-> 0, pipes |-> <<>>,
   birdY |-> resetBird(sz).birdY, birdVelocity |-> resetBird(sz).birdVelocity]

impulse_additive(v) == v + jumpStrength

(* state.birdVelocity = state.jumpStrength *)
impulse(v) == jumpStrength

----------------------------------------------------------------------------
(* Doubles.  The position of a pipe is an IEEE 754 double, and the script
   adds to it and subtracts from it with rounding to the nearest double,
   ties to even.  A double is [s, m]: s is its sign (1 or -1; zero has sign
   1) and m = <<m0, m1, ..., m6>> its magnitude m0 + m1/Radix + ... +
   m6/Radix^6, with m1..m6 in 0..Radix-1.  Every operation computes the
   exact result on such limbs and rounds it to 53 significant bits.  The
   numbers of the script that are not zero are between 2^-18 and 2^31,
   where six limbs after the point hold every double and one more than its
   last bit. *)
Bits == 14
Radix == 2^Bits
Limbs == 7
Significand == 53

Double(n) == [s |-> IF n < 0 THEN -1 ELSE 1,
              m |-> <<IF n < 0 THEN 0 - n ELSE n, 0, 0, 0, 0, 0, 0>>]

(* the limbs of p after the first brought into 0..Radix-1, carrying to the
   left *)
Carried(p) ==
  LET c6 == p[6] + p[7] \div Radix
      c5 == p[5] + c6 \div Radix
      c4 == p[4] + c5 \div Radix
      c3 == p[3] + c4 \div Radix
      c2 == p[2] + c3 \div Radix
  IN <<p[1] + c2 \div Radix, c2 % Radix, c3 % Radix, c4 % Radix,
       c5 % Radix, c6 % Radix, p[7] % Radix>>

(* the first limb of p that is not zero (0: none) *)
Lead(p) ==
  IF p[1] # 0 THEN 1 ELSE IF p[2] # 0 THEN 2 ELSE IF p[3] # 0 THEN 3
  ELSE IF p[4] # 0 THEN 4 ELSE IF p[5] # 0 THEN 5 ELSE IF p[6] # 0 THEN 6
  ELSE IF p[7] # 0 THEN 7 ELSE 0

(* the number of bits of n, for 0 <= n < 2^30 *)
BitLen(n) == CHOOSE k \in 0..30 : n < 2^k /\ (k = 0 \/ 2^(k - 1) <= n)

Nonzero(p, k, i) == i < k /\ p[k] # 0

(* some limb of p after limb i is not zero *)
AnyAfter(p, i) ==
  \/ Nonzero(p, 2, i) \/ Nonzero(p, 3, i) \/ Nonzero(p, 4, i)
  \/ Nonzero(p, 5, i) \/ Nonzero(p, 6, i) \/ Nonzero(p, 7, i)

(* whether the magnitude p, followed by something more iff sticky, rounds
   up at the unit ulp of limb j *)
RoundsUp(p, sticky, j, ulp) ==
  IF ulp = 1
  THEN /\ j < Len(p)
       /\ \/ p[j + 1] * 2 > Radix
          \/ /\ p[j + 1] * 2 = Radix
             /\ (AnyAfter(p, j + 1) \/ sticky \/ p[j] % 2 = 1)
  ELSE \/ (p[j] % ulp) * 2 > ulp
       \/ /\ (p[j] % ulp) * 2 = ulp
          /\ (AnyAfter(p, j) \/ sticky \/ (p[j] \div ulp) % 2 = 1)

Kept(p, k, j, r) == IF k < j THEN p[k] ELSE IF k = j THEN r ELSE 0

(* p with r for limb j and nothing after it *)
Replaced(p, j, r) ==
  Carried(<<Kept(p, 1, j, r), Kept(p, 2, j, r), Kept(p, 3, j, r),
            Kept(p, 4, j, r), Kept(p, 5, j, r), Kept(p, 6, j, r),
            Kept(p, 7, j, r)>>)

Rounded(p, sticky, j, ulp) ==
  IF j > Limbs THEN p
  ELSE Replaced(p, j, p[j] - (p[j] % ulp)
                        + (IF RoundsUp(p, sticky, j, ulp) THEN ulp ELSE 0))

(* p rounded where its last significant bit is t bits after the point *)
RoundedAt(p, sticky, t) ==
  Rounded(p, sticky, (t + Bits - 1) \div Bits + 1,
          2^(Bits * ((t + Bits - 1) \div Bits) - t))

RoundedFrom(p, sticky, lead) ==
  IF lead = 0 THEN p
  ELSE RoundedAt(p, sticky,
                 Significand - BitLen(p[lead]) + Bits * (lead - 1))

(* the magnitude p, exact but for what sticky stands for, as the nearest
   double *)
Nearest(p, sticky) == RoundedFrom(p, sticky, Lead(p))

Signed(s, m) == [s |-> IF Lead(m) = 0 THEN 1 ELSE s, m |-> m]

(* n / d for integers n >= 0 and d > 0, and so the decimal literal n/d:
   the long division, one limb at a time, r1..r7 the remainders *)
Over(n, d) ==
  LET r1 == n % d
      r2 == (r1 * Radix) % d
      r3 == (r2 * Radix) % d
      r4 == (r3 * Radix) % d
      r5 == (r4 * Radix) % d
      r6 == (r5 * Radix) % d
      r7 == (r6 * Radix) % d
  IN Signed(1, Nearest(<<n \div d, (r1 * Radix) \div d, (r2 * Radix) \div d,
                         (r3 * Radix) \div d, (r4 * Radix) \div d,
                         (r5 * Radix) \div d, (r6 * Radix) \div d>>,
                       r7 # 0))

(* the limbs of the product of the magnitudes a and b before any carry:
   limb k is the sum of the a[i] * b[j] with i + j = k + 1 *)
Dots(a, b) ==
  <<a[1] * b[1],
    a[1] * b[2] + a[2] * b[1],
    a[1] * b[3] + a[2] * b[2] + a[3] * b[1],
    a[1] * b[4] + a[2] * b[3] + a[3] * b[2] + a[4] * b[1],
    a[1] * b[5] + a[2] * b[4] + a[3] * b[3] + a[4] * b[2] + a[5] * b[1],
    a[1] * b[6] + a[2] * b[5] + a[3] * b[4] + a[4] * b[3] + a[5] * b[2] +
      a[6] * b[1],
    a[1] * b[7] + a[2] * b[6] + a[3] * b[5] + a[4] * b[4] + a[5] * b[3] +
      a[6] * b[2] + a[7] * b[1],
    a[2] * b[7] + a[3] * b[6] + a[4] * b[5] + a[5] * b[4] + a[6] * b[3] +
      a[7] * b[2],
    a[3] * b[7] + a[4] * b[6] + a[5] * b[5] + a[6] * b[4] + a[7] * b[3],
    a[4] * b[7] + a[5] * b[6] + a[6] * b[5] + a[7] * b[4],
    a[5] * b[7] + a[6] * b[6] + a[7] * b[5],
    a[6] * b[7] + a[7] * b[6],
    a[7] * b[7]>>

(* the limbs of d, thirteen of them, after the first brought into
   0..Radix-1, carrying to the left *)
LongCarried(d) ==
  LET c12 == d[12] + d[13] \div Radix
      c11 == d[11] + c12 \div Radix
      c10 == d[10] + c11 \div Radix
      c9 == d[9] + c10 \div Radix
      c8 == d[8] + c9 \div Radix
      c7 == d[7] + c8 \div Radix
      c6 == d[6] + c7 \div Radix
      c5 == d[5] + c6 \div Radix
      c4 == d[4] + c5 \div Radix
      c3 == d[3] + c4 \div Radix
      c2 == d[2] + c3 \div Radix
  IN <<d[1] + c2 \div Radix, c2 % Radix, c3 % Radix, c4 % Radix, c5 % Radix,
      c6 % Radix, c7 % Radix, c8 % Radix, c9 % Radix, c10 % Radix, c11 %
      Radix, c12 % Radix, d[13] % Radix>>

(* the product of the magnitudes a and b, which is exact *)
Product(a, b) == LongCarried(Dots(a, b))

High(p) == <<p[1], p[2], p[3], p[4], p[5], p[6], p[7]>>

Low(p) == p[8] # 0 \/ p[9] # 0 \/ p[10] # 0 \/ p[11] # 0 \/ p[12] # 0 \/
      p[13] # 0

NearestOf(p) == Nearest(High(p), Low(p))

(* a * b *)
Times(a, b) == Signed(a.s * b.s, NearestOf(Product(a.m, b.m)))

(* the first limb where a and b differ (0: none) *)
Differ(a, b) ==
  IF a[1] # b[1] THEN 1 ELSE IF a[2] # b[2] THEN 2 ELSE IF a[3] # b[3] THEN 3
  ELSE IF a[4] # b[4] THEN 4 ELSE IF a[5] # b[5] THEN 5
  ELSE IF a[6] # b[6] THEN 6 ELSE IF a[7] # b[7] THEN 7 ELSE 0

MagLess(a, b) == Differ(a, b) # 0 /\ a[Differ(a, b)] < b[Differ(a, b)]

(* a < b *)
Lt(a, b) ==
  IF a.s # b.s THEN a.s < b.s
  ELSE IF a.s = 1 THEN MagLess(a.m, b.m) ELSE MagLess(b.m, a.m)

(* a <= b *)
Le(a, b) == ~Lt(b, a)

(* the magnitude a + b, and a - b for a >= b *)
Added(a, b) ==
  Carried(<<a[1] + b[1], a[2] + b[2], a[3] + b[3], a[4] + b[4],
            a[5] + b[5], a[6] + b[6], a[7] + b[7]>>)

Subtracted(a, b) ==
  Carried(<<a[1] - b[1], a[2] - b[2], a[3] - b[3], a[4] - b[4],
            a[5] - b[5], a[6] - b[6], a[7] - b[7]>>)

(* a + b *)
Plus(a, b) ==
  IF a.s = b.s THEN Signed(a.s, Nearest(Added(a.m, b.m), FALSE))
  ELSE IF MagLess(a.m, b.m)
  THEN Signed(b.s, Nearest(Subtracted(b.m, a.m), FALSE))
  ELSE Signed(a.s, Nearest(Subtracted(a.m, b.m), FALSE))

(* a - b *)
Minus(a, b) == Plus(a, [s |-> 0 - b.s, m |-> b.m])

(* the magnitude m times the integer n *)
Scaled(m, n) ==
  Carried(<<m[1] * n, m[2] * n, m[3] * n, m[4] * n, m[5] * n, m[6] * n,
            m[7] * n>>)

Whole(m) == m[1] + (IF m[2] * 2 >= Radix THEN 1 ELSE 0)

(* a length of a pixels in 1/PScale pixels: the nearest one *)
Micro(a) == a.s * Whole(Scaled(Scaled(a.m, VScale), PScale \div VScale))

----------------------------------------------------------------------------
createPipe_fullRange(sz, rnd, id) ==
  LET availableHeight == Px(sz.gameHeight - sz.groundHeight)
      maxTopHeight == availableHeight - Px(pipeGap) - Px(minPipeHeight)
      topHeight == (maxTopHeight * rnd[1]) \div rnd[2] + Px(minPipeHeight)
      bottomY == topHeight + Px(pipeGap)
      bottomHeight == availableHeight - bottomY
  IN [id |-> id, bornAt |-> Double(sz.gameWidth), x |-> Double(sz.gameWidth),
      topHeight |-> topHeight, bottomY |-> bottomY,
      bottomHeight |-> bottomHeight, passed |-> FALSE]

(* Pipes.  id is the identity of the pipe object; bornAt is the position
   it was created at (the field width of that moment). *)
createPipe(sz, rnd, id) ==
  LET availableHeight == Px(sz.gameHeight - sz.groundHeight)
      maxTopHeight == availableHeight - Px(pipeGap) - Px(minPipeHeight)
      topHeight == ((maxTopHeight - Px(minPipeHeight)) * rnd[1]) \div rnd[2]
                     + Px(minPipeHeight)
      bottomY == topHeight + Px(pipeGap)
      bottomHeight == availableHeight - bottomY
  IN [id |-> id, bornAt |-> Double(sz.gameWidth), x |-> Double(sz.gameWidth),
      topHeight |-> topHeight, bottomY |-> bottomY,
      bottomHeight |-> bottomHeight, passed |-> FALSE]

pushPipe_unshift(ps, pipe) == <<pipe>> \o ps

(* state.pipes.push(...) *)
pushPipe(ps, pipe) == Append(ps, pipe)

moveBy_frozen(dt) == Double(0)

moveBy_reversed(dt) ==
  Minus(Double(0),
        Times(Times(Over(pipeSpeed, VScale), Double(60)), Over(dt, 1000)))

(* const moveBy = state.pipeSpeed * 60 * deltaSec, for the step of dt ms:
   deltaSec is dt / 1000, the quotient the script took before Math.min (the
   least of two quotients by 1000 is the quotient of the least) *)
moveBy(dt) == Times(Times(Over(pipeSpeed, VScale), Double(60)), Over(dt, 1000))

birdFront_behindLine(sz) == Minus(Double(EvictLine), Double(sz.birdWidth))

(* state.birdX + birdWidth, the leading edge of the flyer *)
birdFront(sz) == Plus(Double(birdX), Double(sz.birdWidth))

isPassing_ignoresFlag(pipe, sz) ==
  Lt(Plus(pipe.x, Double(pipeWidth)), birdFront(sz))

(* !pipe.passed && birdFront > pipe.x + state.pipeWidth *)
isPassing(pipe, sz) ==
  ~pipe.passed /\ Lt(Plus(pipe.x, Double(pipeWidth)), birdFront(sz))

isNewHigh_late(sc, hs) == sc * hs.den > hs.num + hs.den

isNewHigh_orEqual(sc, hs) == sc * hs.den >= hs.num

(* state.score > state.highScore *)
isNewHigh(sc, hs) == Greater(Value(sc, 1), hs)

visible_inclusive(pipe) ==
  Le(Double(EvictLine), Plus(pipe.x, Double(pipeWidth)))

(* pipe.x + state.pipeWidth > -10 *)
visible(pipe) == Lt(Double(EvictLine), Plus(pipe.x, Double(pipeWidth)))

(* What the body of the forEach of updatePipes does with the moved pipe,
   hit telling whether it is found passing: score, high score, save.  acc is
   everything the loop changes; acc.events records each scoring. *)
counted(pipe, hit, acc) ==
  LET score1 == IF hit THEN acc.score + 1 ELSE acc.score
      newHigh == hit /\ isNewHigh(score1, acc.highScore)
      highScore1 == IF newHigh THEN Value(score1, 1) ELSE acc.highScore
      storage1 == IF newHigh THEN saveHighScore(highScore1) ELSE acc.storage
  IN [pipes     |-> Append(acc.pipes,
                           [pipe EXCEPT !.passed = pipe.passed \/ hit]),
      score     |-> score1,
      highScore |-> highScore1,
      storage   |-> storage1,
      saves     |-> IF newHigh THEN acc.saves + 1 ELSE acc.saves,
      events    |-> IF hit
                    THEN Append(acc.events,
                           [id |-> pipe.id, score |-> score1,
                            highBefore |-> acc.highScore,
                            highAfter |-> highScore1,
                            saved |-> newHigh, stored |-> storage1])
                    ELSE acc.events]

(* the body of the forEach after pipe.x -= moveBy *)
visited(pipe, sz, acc) == counted(pipe, isPassing(pipe, sz), acc)

(* The forEach of updatePipes from pipe i on: each pipe moves by step and is
   then tested. *)
RECURSIVE scoreLoop(_, _, _, _, _)
scoreLoop(ps, i, step, sz, acc) ==
  IF i > Len(ps) THEN acc
  ELSE scoreLoop(ps, i + 1, step, sz,
         visited([ps[i] EXCEPT !.x = Minus(ps[i].x, step)], sz, acc))

(* state.pipes = state.pipes.filter(...), on what the forEach left in r *)
filtered(r) ==
  [pipes     |-> SelectSeq(r.pipes, visible),
   gone      |-> {r.pipes[i] : i \in {j \in 1..Len(r.pipes) : ~visible(r.pipes[j])}},
   score     |-> r.score,
   highScore |-> r.highScore,
   storage   |-> r.storage,
   saves     |-> r.saves,
   events    |-> r.events]

(* updatePipes(deltaSec) for the step of dt ms, on the pipes ps, the score
   sc, the high score hs, the storage st and sv saves so far.  gone: the
   pipes the filter removed. *)
updatePipes(ps, dt, sz, sc, hs, st, sv) ==
  filtered(scoreLoop(ps, 1, moveBy(dt), sz,
             [pipes |-> <<>>, score |-> sc, highScore |-> hs,
              storage |-> st, saves |-> sv, events |-> <<>>]))

----------------------------------------------------------------------------
(* Collision *)
Rect(l, t, w, h) == [left |-> l, top |-> t, right |-> l + w, bottom |-> t + h]

intersects(a, b) ==
  /\ a.left < b.right
  /\ a.right > b.left
  /\ a.top < b.bottom
  /\ a.bottom > b.top

(* Rotation.  placeBird() writes transform: rotate(angle deg), and
   getBoundingClientRect() returns the box that bounds the rotated flyer
   (rotated about its center).  Cosine and sine are computed to 12 decimal
   places on numbers <<a0, a1, a2, a3>> = a0 + a1/Base + a2/Base^2 +
   a3/Base^3, so that the box is right to the last digit of a position. *)
Base == 10000
One == <<1, 0, 0, 0>>

(* carries of the partial sums p[1..5], the fifth one place below a3 *)
Carry(p) ==
  LET t3 == p[4] + p[5] \div Base
      t2 == p[3] + t3 \div Base
      t1 == p[2] + t2 \div Base
  IN <<p[1] + t1 \div Base, t1 % Base, t2 % Base, t3 % Base>>

FAdd(a, b) == Carry(<<a[1] + b[1], a[2] + b[2], a[3] + b[3], a[4] + b[4], 0>>)

(* a - b, for a >= b *)
FSub(a, b) ==
  LET t3 == a[4] - b[4]
      t2 == a[3] - b[3] - (IF t3 < 0 THEN 1 ELSE 0)
      t1 == a[2] - b[2] - (IF t2 < 0 THEN 1 ELSE 0)
      t0 == a[1] - b[1] - (IF t1 < 0 THEN 1 ELSE 0)
  IN <<t0, (t1 + Base) % Base, (t2 + Base) % Base, (t3 + Base) % Base>>

FMul(a, b) ==
  Carry(<<a[1] * b[1],
          a[1] * b[2] + a[2] * b[1],
          a[1] * b[3] + a[2] * b[2] + a[3] * b[1],
          a[1] * b[4] + a[2] * b[3] + a[3] * b[2] + a[4] * b[1],
          a[2] * b[4] + a[3] * b[3] + a[4] * b[2]>>)

(* a * n and a / n for a small natural n *)
FScale(a, n) == Carry(<<a[1] * n, a[2] * n, a[3] * n, a[4] * n, 0>>)

FDiv(a, n) ==
  LET c1 == (a[1] % n) * Base + a[2]
      c2 == (c1 % n) * Base + a[3]
      c3 == (c2 % n) * Base + a[4]
  IN <<a[1] \div n, c1 \div n, c2 \div n, c3 \div n>>

(* m thousandths of a degree in radians: m * 0.0000 1745 3292 5199 4329 *)
Radians(m) ==
  Carry(<<0, 0, m * 1745, m * 3292, m * 5199 + (m * 4329) \div Base>>)

(* 1 - x2/(n(n-1)) (1 - x2/((n+2)(n+1)) (1 - ...)): the cosine series of x
   from n = 2 and the sine series of x divided by x from n = 3 *)
RECURSIVE Series(_, _)
Series(x2, n) ==
  IF n > 20 THEN One
  ELSE FSub(One, FDiv(FMul(x2, Series(x2, n + 2)), n * (n - 1)))

Cos(x) == Series(FMul(x, x), 2)
Sin(x) == FMul(x, Series(FMul(x, x), 3))

(* <<Cos, Sin>> of the whole degrees and of the thousandths of a degree *)
Degrees == [q \in 0..70 |-> <<Cos(Radians(q * 1000)), Sin(Radians(q * 1000))>>]
Thousandths == [r \in 0..999 |-> <<Cos(Radians(r)), Sin(Radians(r))>>]

(* <<Cos, Sin>> of the sum of two angles, from <<Cos, Sin>> of each *)
Sum(d, t) ==
  <<FSub(FMul(d[1], t[1]), FMul(d[2], t[2])),
    FAdd(FMul(d[2], t[1]), FMul(d[1], t[2]))>>

(* <<Cos, Sin>> of m thousandths of a degree, 0 <= m <= 70000 *)
CosSin(m) == Sum(Degrees[m \div 1000], Thousandths[m % 1000])

(* a length in 1/PScale pixels, rounded *)
ToPx(a) == a[1] * PScale + a[2] * 100 + (a[3] * Base + a[4] + 500000) \div 1000000

Max(a, b) == IF a > b THEN a ELSE b

(* Math.max(-25, Math.min(70, state.birdVelocity * 4)), in thousandths of a
   degree *)
angle(v) == Max(-25000, Min(70000, v * 4))

(* half the extent, along one axis, of the box that bounds a w x h box
   turned by the angle of cosine c and sine s (w along the axis) *)
Extent(c, s, w, h) == ToPx(FDiv(FAdd(FScale(c, w), FScale(s, h)), 2))

(* the box of the given half extents around (cx, cy) *)
Around(cx, cy, halfWidth, halfHeight) ==
  [left |-> cx - halfWidth, top |-> cy - halfHeight,
   right |-> cx + halfWidth, bottom |-> cy + halfHeight]

(* the box that bounds a box of size sz, placed at (x, y) and turned about
   its center by the angle whose <<Cos, Sin>> is turn *)
Bounding(x, y, sz, turn) ==
  Around(x + Px(sz.birdWidth) \div 2, y + Px(sz.birdHeight) \div 2,
         Extent(turn[1], turn[2], sz.birdWidth, sz.birdHeight),
         Extent(turn[1], turn[2], sz.birdHeight, sz.birdWidth))

(* bird.getBoundingClientRect(), relative to the game element, for the
   flyer placed at y with velocity v *)
birdRect(y, v, sz) ==
  Bounding(Px(birdX), y, sz,
           CosSin(IF angle(v) < 0 THEN 0 - angle(v) ELSE angle(v)))

topRect(pipe) == Rect(Micro(pipe.x), 0, Px(pipeWidth), pipe.topHeight)
bottomRect(pipe) ==
  Rect(Micro(pipe.x), pipe.bottomY, Px(pipeWidth), pipe.bottomHeight)

(* the tests of hasCollision on the box b of the bird and the boxes of the
   segments of the pipes ps *)
collides(b, ps, sz) ==
  \/ b.top <= 0
  \/ b.bottom >= Px(sz.gameHeight - sz.groundHeight)
  \/ \E i \in 1..Len(ps) :
       intersects(b, topRect(ps[i])) \/ intersects(b, bottomRect(ps[i]))

(* how far, in 1/PScale pixels, an edge of the box of the bird can be from
   where the model has it, relative to an edge it is tested against *)
Slack == 2

(* the box b with every edge moved outwards by d *)
Grown(b, d) ==
  [left |-> b.left - d, top |-> b.top - d,
   right |-> b.right + d, bottom |-> b.bottom + d]

(* the answers the tests can give for a box that is b to within Slack: the
   tests never turn false when the box grows *)
answers(b, ps, sz) ==
  {collides(Grown(b, 0 - Slack), ps, sz), collides(Grown(b, Slack), ps, sz)}

(* hasCollision(): the set of its possible answers, one everywhere but
   within Slack of a tie *)
hasCollision(y, v, ps, sz) == answers(birdRect(y, v, sz), ps, sz)

----------------------------------------------------------------------------
(* init() *)
(* init(): the state once the script has run, for a stored item and a
   geometry among those given *)
init(items, geometries) ==
  /\ storage \in items
  /\ sizes \in geometries
  /\ highScore = loadHighScore(storage)
  /\ score = resetGameState(sizes).score
  /\ lastPipeTime = resetGameState(sizes).lastPipeTime
  /\ lastFrameTime = resetGameState(sizes).lastFrameTime
  /\ pipes = resetGameState(sizes).pipes
  /\ birdY = resetGameState(sizes).birdY
  /\ birdVelocity = resetGameState(sizes).birdVelocity
  /\ gameState = "start"
  /\ animationFrameId = 0
  /\ pending = {}
  /\ rafNext = 1
  /\ clock = 0
  /\ nextPipeId = 1
  /\ evicted = {}
  /\ saves = 0
  /\ scoreEvents = <<>>
  /\ nActivates = 0
  /\ nResizes = 0

Init == init(StoredItems, Sizes)

(* startPlaying(), reached from handleInput for every accepted input event *)
startPlaying ==
  IF gameState = "playing"
  THEN /\ birdVelocity' = impulse(birdVelocity)
       /\ UNCHANGED <<gameState, birdY, score, highScore, pipes, lastPipeTime,
                      lastFrameTime, animationFrameId, storage, pending,
                      rafNext, nextPipeId, evicted, saves>>
  ELSE LET r == resetGameState(sizes)
       IN /\ score' = r.score
          /\ lastPipeTime' = r.lastPipeTime
          /\ lastFrameTime' = r.lastFrameTime
          /\ pipes' = r.pipes
          /\ evicted' = {}
          /\ birdY' = r.birdY
          /\ gameState' = "playing"
          /\ birdVelocity' = impulse(r.birdVelocity)
          /\ animationFrameId' = rafNext
          /\ pending' = pending \cup {rafNext}
          /\ rafNext' = rafNext + 1
          /\ UNCHANGED <<highScore, storage, nextPipeId, saves>>

Activate ==
  /\ nActivates < MaxActivates
  /\ IF gameState = "playing"
     THEN rafNext <= MaxShortFrames + 1      \* a jump, in the first frames
     ELSE rafNext <= MaxFrames               \* a start, at any time
  /\ nActivates' = nActivates + 1
  /\ scoreEvents' = <<>>
  /\ startPlaying
  /\ UNCHANGED <<sizes, clock, nResizes>>

endGame_toStart(h) ==
  /\ gameState' = "start"
  /\ pending' = (pending \ {h}) \ {animationFrameId}
  /\ UNCHANGED <<animationFrameId, rafNext>>

endGame_staysPlaying(h) ==
  /\ gameState' = "playing"
  /\ pending' = (pending \ {h}) \ {animationFrameId}
  /\ UNCHANGED <<animationFrameId, rafNext>>

endGame_thenRequests(h) ==
  /\ gameState' = "gameover"
  /\ animationFrameId' = rafNext
  /\ pending' = ((pending \ {h}) \ {animationFrameId}) \cup {rafNext}
  /\ rafNext' = rafNext + 1

(* endGame() and the return that follows it, in the frame delivered for
   request h: cancelAnimationFrame(state.animationFrameId), no new request *)
endGame(h) ==
  /\ gameState' = "gameover"
  /\ pending' = (pending \ {h}) \ {animationFrameId}
  /\ UNCHANGED <<animationFrameId, rafNext>>

integrate_positionFirst(y, v, dt) ==
  [birdY |-> y + v * 60 * dt,
   birdVelocity |-> v + (gravity * 60 * dt) \div 1000]

(* the physics of gameLoop, for a step of dt ms:
   birdVelocity += gravity * 60 * delta; birdY += birdVelocity * 60 * delta *)
integrate(y, v, dt) ==
  LET v1 == v + (gravity * 60 * dt) \div 1000   \* gravity * 60 = 27000
  IN [birdY |-> y + v1 * 60 * dt, birdVelocity |-> v1]

notPlaying_onlyStart == gameState = "start"

(* the guard of gameLoop: state.gameState !== "playing" *)
notPlaying == gameState # "playing"

(* the rest of gameLoop once the bird is at b and updatePipes returned u:
   placeBird, the collision test, and endGame or the next request *)
frame(h, b, u) ==
  /\ birdVelocity' = b.birdVelocity
  /\ birdY' = b.birdY
  /\ pipes' = u.pipes
  /\ evicted' = evicted \cup u.gone
  /\ score' = u.score
  /\ highScore' = u.highScore
  /\ storage' = u.storage
  /\ saves' = u.saves
  /\ scoreEvents' = u.events
  /\ \E dead \in hasCollision(b.birdY, b.birdVelocity, u.pipes, sizes) :
       IF dead
       THEN endGame(h)
       ELSE /\ animationFrameId' = rafNext
            /\ pending' = (pending \ {h}) \cup {rafNext}
            /\ rafNext' = rafNext + 1
            /\ UNCHANGED gameState

(* gameLoop(now), delivered for the pending request h (0: a call that no
   request asked for); rnd is what Math.random() returns if this frame
   creates a pipe *)
gameLoop(h, now, rnd) ==
  IF notPlaying
  THEN /\ pending' = pending \ {h}
       /\ UNCHANGED <<gameState, birdY, birdVelocity, score, highScore, pipes,
                      lastPipeTime, lastFrameTime, animationFrameId, storage,
                      rafNext, nextPipeId, evicted, saves, scoreEvents>>
  ELSE
    LET last == IF lastFrameTime = 0 THEN now ELSE lastFrameTime
        dt == Min(now - last, MaxStepMs)
        spawn == lastPipeTime = 0 \/ now - lastPipeTime >= pipeInterval
        ps1 == IF spawn
               THEN pushPipe(pipes, createPipe(sizes, rnd, nextPipeId))
               ELSE pipes
    IN /\ spawn \/ rnd = <<0, 1>>
       /\ lastFrameTime' = now
       /\ lastPipeTime' = IF spawn THEN now ELSE lastPipeTime
       /\ nextPipeId' = IF spawn THEN nextPipeId + 1 ELSE nextPipeId
       /\ frame(h, integrate(birdY, birdVelocity, dt),
                updatePipes(ps1, dt, sizes, score, highScore, storage, saves))

(* the callback runs with a timestamp d ms after the last one *)
Deliver(h, d, rnd) ==
  /\ clock' = clock + d
  /\ gameLoop(h, clock + d, rnd)
  /\ UNCHANGED <<sizes, nActivates, nResizes>>

(* the browser delivers a pending frame request *)
Frame ==
  \E h \in pending, d \in Deltas, rnd \in Rands :
    /\ clock + d <= MaxTime
    /\ Deliver(h, d, rnd)
    /\ rafNext <= MaxFrames \/ gameState' = "gameover"

resizeListener_always(sz) ==
  /\ birdY' = resetBird(sz).birdY
  /\ birdVelocity' = resetBird(sz).birdVelocity

(* the window "resize" listener, run after the geometry changed to sz *)
resizeListener(sz) ==
  IF gameState # "playing"
  THEN /\ birdY' = resetBird(sz).birdY
       /\ birdVelocity' = resetBird(sz).birdVelocity
  ELSE UNCHANGED <<birdY, birdVelocity>>

Resize ==
  \E sz \in Sizes :
    /\ nResizes < MaxResizes
    /\ nResizes' = nResizes + 1
    /\ sizes' = sz
    /\ scoreEvents' = <<>>
    /\ resizeListener(sz)
    /\ UNCHANGED <<gameState, score, highScore, pipes, lastPipeTime,
                   lastFrameTime, animationFrameId, storage, pending, rafNext,
                   clock, nextPipeId, evicted, saves, nActivates>>

Next == Activate \/ Frame \/ Resize

Spec == Init /\ [][Next]_vars

(* The same program under any non-decreasing frame timestamps: a frame may
   carry the timestamp of the previous one (0 at the very first frame) and
   the gaps may be 100 ms. *)
FrameAnyTime ==
  \E h \in pending, d \in AnyDeltas, rnd \in Rands :
    /\ clock + d <= MaxTime
    /\ rafNext <= MaxShortFrames + 1
    /\ Deliver(h, d, rnd)
    /\ rafNext <= MaxShortFrames \/ gameState' = "gameover"

NextAnyTime == Activate \/ FrameAnyTime

SpecAnyTime == Init /\ [][NextAnyTime]_vars

(* The same program over more field heights and more values of
   Math.random(), with no resize. *)
InitGates == init({Absent}, GateSizes)

FrameGates ==
  \E h \in pending, d \in Deltas, rnd \in GateRands :
    /\ clock + d <= MaxTime
    /\ Deliver(h, d, rnd)
    /\ rafNext <= MaxFrames \/ gameState' = "gameover"

NextGates == Activate \/ FrameGates

SpecGates == InitGates /\ [][NextGates]_vars

(* The same program with frames that keep coming: every pending request is
   eventually delivered, with a strictly greater timestamp, for as long as
   the session requests frames. *)
FrameLive ==
  \E h \in pending, d \in LiveDeltas, rnd \in Rands : Deliver(h, d, rnd)

(* input arrives only during the first frames; then the session is left
   alone *)
ActivateEarly == rafNext <= MaxShortFrames + 1 /\ Activate

NextLive == ActivateEarly \/ FrameLive

InitLive == init({Absent}, Sizes)

(* a pending request is delivered: the timestamp of the last delivered
   frame advances.  Under NextLive the steps that change clock are exactly
   the FrameLive steps, and one is possible exactly when a request is
   pending. *)
FrameDue == pending # {} /\ \E d \in LiveDeltas : clock' = clock + d

SpecLive == InitLive /\ [][NextLive]_vars /\ WF_clock(FrameDue)

(* The same program when the frame callback is also called in Start or
   GameOver, where no request is pending (h = 0 stands for no request). *)
StrayFrame ==
  \E d \in StrayDeltas, rnd \in Rands :
    /\ gameState \in {"start", "gameover"}
    /\ clock + d <= MaxTime
    /\ Deliver(0, d, rnd)

NextStray == Activate \/ FrameAnyTime \/ StrayFrame

SpecStray == Init /\ [][NextStray]_vars

(* The same program with frames 25 or 50 ms apart, from an empty storage and
   with no resize: steps of 3.6 and of 7.2. *)
FrameEvict ==
  \E h \in pending, d \in EvictDeltas, rnd \in Rands :
    /\ clock + d <= MaxTime
    /\ Deliver(h, d, rnd)
    /\ rafNext <= MaxFrames + 1 \/ gameState' = "gameover"

NextEvict == Activate \/ FrameEvict

SpecEvict == InitLive /\ [][NextEvict]_vars

----------------------------------------------------------------------------
(* Which handler a step ran *)
ActivateStep == nActivates' # nActivates
FrameStep == clock' # clock
ResizeStep == nResizes' # nResizes

PipeIds(ps) == {ps[i].id : i \in 1..Len(ps)}
Center(sz) == Px(sz.gameHeight - sz.groundHeight - sz.birdHeight) \div 2

(* C1: the session state changes only Start -> Playing and GameOver ->
   Playing, both on activate, and Playing -> GameOver on a frame that detects
   a collision; activate in Playing keeps Playing; the state never returns to
   Start and never goes from Start to GameOver. *)
C1_Transitions ==
  [][ /\ (gameState = "start" /\ gameState' # "start")
           => (gameState' = "playing" /\ ActivateStep)
      /\ (gameState = "gameover" /\ gameState' # "gameover")
           => (gameState' = "playing" /\ ActivateStep)
      /\ (gameState = "playing" /\ gameState' # "playing")
           => (gameState' = "gameover" /\ FrameStep
                 /\ TRUE \in hasCollision(birdY', birdVelocity', pipes',
                                          sizes'))
      /\ (gameState = "playing" /\ ActivateStep) => gameState' = "playing"
      /\ gameState' = "start" => gameState = "start" ]_vars

(* a second session: Playing again after a GameOver *)
C1_Witness ==
  gameState = "playing" /\ lastFrameTime = 0 /\ clock > 0

(* C2: an activate in Start or GameOver leaves Playing, score 0, no gates,
   both timestamps unset, the flyer at the vertical center of the playable
   field and the velocity at the impulse constant, whatever came before. *)
C2_RestartResets ==
  [][ (ActivateStep /\ gameState # "playing")
        => /\ gameState' = "playing"
           /\ score' = 0
           /\ pipes' = <<>>
           /\ lastPipeTime' = 0
           /\ lastFrameTime' = 0
           /\ 2 * birdY' = Px(sizes'.gameHeight - sizes'.groundHeight
                                - sizes'.birdHeight)
           /\ birdVelocity' = -8500 ]_vars

(* a restart from GameOver, after a session that had scored *)
C2_Witness ==
  /\ gameState = "playing" /\ lastFrameTime = 0 /\ clock > 0
  /\ score = 0 /\ pipes = <<>> /\ saves > 0

(* C3: an activate while Playing sets the velocity to the impulse constant
   and changes nothing else: position, score, high score, gates, timestamps,
   session state and pending frame requests stay as they were. *)
C3_JumpOnlySetsVelocity ==
  [][ (ActivateStep /\ gameState = "playing")
        => /\ birdVelocity' = -8500
           /\ UNCHANGED <<gameState, birdY, score, highScore, pipes,
                          lastPipeTime, lastFrameTime, pending, rafNext,
                          animationFrameId, storage, saves, sizes>> ]_vars

(* a jump taken in mid-flight: the velocity is the impulse although frames
   have moved the flyer away from the center *)
C3_Witness ==
  /\ gameState = "playing" /\ birdVelocity = -8500
  /\ birdY # Center(sizes) /\ pipes # <<>>

(* C4: score <= highScore right after every scoring event and in every
   state a handler leaves, whatever high score was loaded. *)
C4_ScoreAtMostHigh ==
  /\ ~Greater(Value(score, 1), highScore)
  /\ \A k \in 1..Len(scoreEvents) :
       ~Greater(Value(scoreEvents[k].score, 1), scoreEvents[k].highAfter)

(* a gate was just scored and the score reached the loaded high score
   without exceeding it *)
C4_Witness ==
  scoreEvents # <<>> /\ highScore = Value(score, 1) /\ saves = 0

SavedEvents(ev) == {k \in 1..Len(ev) : ev[k].saved}

(* C5: the high score never decreases; it changes only at a scoring event
   whose incremented score strictly exceeds it, and then equals that score;
   saveHighScore is called at exactly those events, and after a save the
   persisted value reads back as the in-memory high score. *)
C5_HighScoreMonotone ==
  [][ /\ ~Greater(highScore, highScore')
      /\ ~FrameStep => (highScore' = highScore /\ saves' = saves
                          /\ storage' = storage)
      /\ FrameStep =>
           /\ \A k \in 1..Len(scoreEvents') :
                LET e == scoreEvents'[k]
                IN /\ e.saved <=> Greater(Value(e.score, 1), e.highBefore)
                   /\ e.saved <=> e.highAfter # e.highBefore
                   /\ e.saved => e.highAfter = Value(e.score, 1)
                   /\ e.saved => Number(e.stored) = Num(e.score, 1)
                   /\ e.highBefore = IF k = 1 THEN highScore
                                     ELSE scoreEvents'[k - 1].highAfter
           /\ highScore' = IF scoreEvents' = <<>> THEN highScore
                           ELSE scoreEvents'[Len(scoreEvents')].highAfter
           /\ saves' = saves + Cardinality(SavedEvents(scoreEvents'))
           /\ SavedEvents(scoreEvents') = {} => storage' = storage
      /\ saves' > 0 => Number(storage') = Num(highScore'.num, highScore'.den)
    ]_vars

(* a new session started after a saved high score: the score is back at 0
   and the high score is kept *)
C5_Witness ==
  gameState = "playing" /\ saves > 0 /\ score = 0 /\ highScore.num > 0

PassedIds(gs) == {g.id : g \in {q \in gs : q.passed}}
Range(ps) == {ps[i] : i \in 1..Len(ps)}

(* C6: a gate's scored flag goes from false to true at most once and never
   back; the score grows by exactly 1 at each such transition and at no
   other time; so the score of a session equals the number of its gates,
   active or evicted, whose flag is set. *)
C6_ScoreOncePerGate ==
  [][ /\ \A i \in 1..Len(pipes), j \in 1..Len(pipes') :
           (pipes[i].id = pipes'[j].id /\ pipes[i].passed) => pipes'[j].passed
      /\ ~ActivateStep =>
           score' - score =
             Cardinality((PassedIds(Range(pipes')) \cup PassedIds(evicted'))
                           \ (PassedIds(Range(pipes)) \cup PassedIds(evicted)))
      /\ score' = Cardinality(PassedIds(Range(pipes')) \cup PassedIds(evicted'))
    ]_vars

(* a scored gate was evaluated by further frames until it was evicted, and
   the score still counts it once *)
C6_Witness ==
  evicted # {} /\ score = 1 /\ PassedIds(evicted) # {}

(* The outcome C7 states, on the flyer's box (its position and size) and the
   gates of a state *)
C7_Outcome ==
  LET top == birdY
      bottom == birdY + Px(sizes.birdHeight)
      left == Px(90)
      right == Px(90 + sizes.birdWidth)
  IN \/ top <= 0
     \/ bottom >= Px(sizes.gameHeight - sizes.groundHeight)
     \/ \E i \in 1..Len(pipes) :
          /\ left < Micro(pipes[i].x) + Px(68)
          /\ right > Micro(pipes[i].x)
          /\ \/ top < pipes[i].topHeight /\ bottom > 0
             \/ top < pipes[i].bottomY + pipes[i].bottomHeight
                  /\ bottom > pipes[i].bottomY

(* C7 as stated: a frame ends the session exactly when, after its integration
   and gate update, the flyer's top is at or above the upper boundary, or its
   bottom at or below the ground line, or its box overlaps a segment of an
   active gate strictly on both axes; sharing only an edge with a segment is
   no collision. *)
C7_AsStated ==
  [][ (FrameStep /\ gameState = "playing")
        => (gameState' = "gameover" <=> C7_Outcome') ]_vars

(* the same outcome on the box that bounds the flyer as placeBird() turned
   it, which is the box hasCollision reads *)
C7_OutcomeOn(b, ps, sz) ==
  \/ b.top <= 0
  \/ b.bottom >= Px(sz.gameHeight - sz.groundHeight)
  \/ \E i \in 1..Len(ps) :
       /\ b.left < Micro(ps[i].x) + Px(68)
       /\ b.right > Micro(ps[i].x)
       /\ \/ b.top < ps[i].topHeight /\ b.bottom > 0
          \/ b.top < ps[i].bottomY + ps[i].bottomHeight
               /\ b.bottom > ps[i].bottomY

(* C7 on the turned box: a frame ends the session exactly when the box that
   bounds the turned flyer is at or above the upper boundary, at or below
   the ground line, or overlaps a segment strictly on both axes. *)
C7_OnTurnedBox ==
  [][ (FrameStep /\ gameState = "playing")
        => (gameState' = "gameover"
              <=> C7_OutcomeOn(birdRect(birdY', birdVelocity', sizes'),
                               pipes', sizes')) ]_vars

(* a session ended although the flyer's own box is clear of both boundaries
   and of every segment *)
C7_EndedClear == gameState = "gameover" /\ ~C7_Outcome

(* C8 as stated: a gate is evicted exactly when its trailing edge is
   strictly left of -10; a gate whose trailing edge is exactly at -10 stays
   in the active collection. *)
C8_AsStated ==
  /\ \A g \in evicted : Lt(Plus(g.x, Double(68)), Double(-10))
  /\ \A i \in 1..Len(pipes) : ~Lt(Plus(pipes[i].x, Double(68)), Double(-10))

(* C8, amended: a gate is evicted exactly when its trailing edge is at or
   left of -10 (x + pipeWidth <= -10); a gate whose trailing edge is exactly
   at -10 (x = -78) is evicted, and every active gate has its trailing edge
   strictly right of -10. *)
C8_EvictAtOrPastLine ==
  /\ \A g \in evicted : Le(Plus(g.x, Double(68)), Double(-10))
  /\ \A i \in 1..Len(pipes) : Lt(Double(-10), Plus(pipes[i].x, Double(68)))

(* a gate evicted with its trailing edge exactly at -10: the subtractions
   of the script have left its position at the double -78 *)
C8_Witness ==
  \E g \in evicted : g.x = Double(-78)

Removed(i) == pipes[i].id \notin PipeIds(pipes')

(* C9 as stated: in every step the gates removed form a prefix of the
   active collection in insertion order, and a removed gate is never
   re-added, also when the field width changes between frames. *)
C9_AsStated ==
  [][ /\ \A i, j \in 1..Len(pipes) : (i < j /\ Removed(j)) => Removed(i)
      /\ PipeIds(pipes') \cap ((1..(nextPipeId - 1)) \ PipeIds(pipes)) = {}
    ]_vars

(* C9, amended: a removed gate is never re-added, and eviction is FIFO among
   gates spawned at non-decreasing field widths: no gate is removed while an
   older gate that was spawned at a field width no greater than its own
   remains active.  (A gate spawned after the field became narrower can be
   evicted before an older one.) *)
C9_FifoAtSteadyWidth ==
  [][ /\ \A i, j \in 1..Len(pipes) :
           (i < j /\ Le(pipes[i].bornAt, pipes[j].bornAt) /\ Removed(j))
             => Removed(i)
      /\ PipeIds(pipes') \cap ((1..(nextPipeId - 1)) \ PipeIds(pipes)) = {}
    ]_vars

(* the oldest gate has been evicted while a newer one, spawned at a field
   width no smaller, is still active *)
C9_Witness ==
  /\ pipes # <<>>
  /\ \E g \in evicted : g.id < pipes[1].id /\ Le(g.bornAt, pipes[1].bornAt)

(* C10 as stated: the positions of the active gates are non-increasing in
   insertion order. *)
C10_AsStated ==
  \A i, j \in 1..Len(pipes) : i < j => Le(pipes[j].x, pipes[i].x)

(* C10, amended: the positions of the active gates are non-decreasing in
   insertion order wherever the field did not become narrower: of two active
   gates, the one inserted later has a position greater than or equal to
   that of the earlier one, provided it was spawned at a field width no
   smaller than the earlier one was. *)
C10_NonDecreasingPositions ==
  \A i, j \in 1..Len(pipes) :
    (i < j /\ Le(pipes[i].bornAt, pipes[j].bornAt))
      => Le(pipes[i].x, pipes[j].x)

(* two active gates, the later spawned at the same or a larger width, after
   frames have moved both *)
C10_Witness ==
  /\ Len(pipes) >= 2
  /\ Le(pipes[1].bornAt, pipes[2].bornAt)
  /\ Lt(pipes[2].x, Minus(pipes[2].bornAt, Double(7)))

----------------------------------------------------------------------------
(* Claims checked under arbitrary timestamps.  A step that is neither an
   activate nor a resize is a call of the frame callback (it may carry the
   same timestamp as the previous one). *)
CallbackStep == nActivates' = nActivates /\ nResizes' = nResizes

(* no gate has been created since the session was (re)started *)
FirstFrame == pipes = <<>> /\ evicted = {}

Spawned == nextPipeId' - nextPipeId

(* C11 as stated: in Playing, the first frame of a session spawns one gate
   at the right edge of the field whatever its timestamp; no frame spawns
   more than one gate; every later spawn of the session happens in a frame
   whose timestamp is at least 1550 ms after the timestamp recorded for the
   previous spawn. *)
C11_AsStated ==
  [][ (CallbackStep /\ gameState = "playing") =>
        /\ Spawned \in {0, 1}
        /\ FirstFrame =>
             /\ Spawned = 1
             /\ pipes' # <<>>
             /\ pipes'[Len(pipes')].bornAt = Double(sizes.gameWidth)
        /\ (~FirstFrame /\ Spawned = 1) => clock' - lastPipeTime >= pipeInterval
    ]_vars

(* the gate of pipes with the identity of g, before the step *)
Before(g) == CHOOSE q \in Range(pipes) : q.id = g.id

(* the gates that existed before the step and were moved by it *)
Moved == {g \in Range(pipes') \cup (evicted' \ evicted) : g.id \in PipeIds(pipes)}

(* C12: whatever the gap between two frame timestamps, a Playing frame
   raises the velocity by at most 1.35 and by no less than 0, moves every
   gate left by at most 7.2 units (no gate moves right, and none is left of
   where the script's subtraction of 7.2 puts it), and records its own
   timestamp as the last-frame timestamp; a frame 50 ms or more after the
   previous one is processed with the full step (velocity + 1.35, gates
   - 7.2), not skipped. *)
C12_ClampedStep ==
  [][ (CallbackStep /\ gameState = "playing") =>
        /\ birdVelocity' - birdVelocity \in 0..1350
        /\ \A g \in Moved :
             /\ Le(g.x, Before(g).x)
             /\ Le(Minus(Before(g).x, Over(72, 10)), g.x)
        /\ \A i \in 1..Len(pipes') : Le(pipes'[i].x, pipes'[i].bornAt)
        /\ lastFrameTime' = clock'
        /\ gameState' \in {"playing", "gameover"}
        /\ (lastFrameTime # 0 /\ clock' - lastFrameTime >= MaxStepMs) =>
             /\ birdVelocity' - birdVelocity = 1350
             /\ \A g \in Moved : g.x = Minus(Before(g).x, Over(72, 10))
    ]_vars

(* two gates spawned at least 1550 ms apart, the older of which has moved
   only 7.2 units in all: the frame that spawned the second one came after
   a gap of 1550 ms and advanced the first by one clamped step *)
C12_Witness ==
  /\ gameState = "playing"
  /\ Len(pipes) = 2 /\ evicted = {}
  /\ lastFrameTime >= pipeInterval
  /\ lastFrameTime = lastPipeTime
  /\ pipes[1].x = Minus(pipes[1].bornAt, Over(72, 10))
  /\ birdVelocity = jumpStrength + 1350

(* C13 as stated: a Playing frame 100 ms after the previous one adds
   0.45 * 60 * 0.1 = 2.7 to the velocity and then the new velocity
   * 60 * 0.1 to the position. *)
C13_AsStated ==
  [][ (CallbackStep /\ gameState = "playing" /\ lastFrameTime # 0
         /\ clock' - lastFrameTime = 100) =>
        /\ birdVelocity' = birdVelocity + 2700
        /\ birdY' = birdY + birdVelocity' * 60 * 100
    ]_vars

(* C13, amended: the session starts at the vertical center with velocity
   -8.5; its first frame (no last-frame timestamp recorded) changes neither
   velocity nor position; every later Playing frame that comes 100 ms after
   the previous one uses the clamped step 0.05 s: velocity + 1.35 first,
   then position + new velocity * 60 * 0.05. *)
C13_ClampedRecurrence ==
  [][ /\ (ActivateStep /\ gameState # "playing") =>
           /\ birdVelocity' = -8500
           /\ birdY' = Center(sizes)
      /\ (CallbackStep /\ gameState = "playing" /\ lastFrameTime = 0) =>
           /\ birdVelocity' = birdVelocity
           /\ birdY' = birdY
      /\ (CallbackStep /\ gameState = "playing" /\ lastFrameTime # 0
            /\ clock' - lastFrameTime = 100) =>
           /\ birdVelocity' = birdVelocity + 1350
           /\ birdY' = birdY + birdVelocity' * 60 * 50
    ]_vars

(* field 500 high with a 50 ground and a 28-tall flyer (center 211): the
   session's frames came at 100 and 200 ms, and the second one left the
   velocity at -8.5 + 1.35 = -7.15 and the position at 211 - 21.45 *)
C13_Witness ==
  /\ gameState = "playing"
  /\ Center(sizes) = Px(211)
  /\ clock = 200 /\ lastFrameTime = 200
  /\ birdVelocity = -7150
  /\ birdY = Px(211) - 21450000

----------------------------------------------------------------------------
(* C14: between handlers at most one frame request is pending; exactly one
   (the one recorded in animationFrameId) while Playing, none in Start or
   GameOver. *)
C14_OneRequest ==
  /\ Cardinality(pending) <= 1
  /\ gameState = "playing" => pending = {animationFrameId}
  /\ gameState \in {"start", "gameover"} => pending = {}

(* Playing with one request pending, after a frame has advanced the gates
   and an activate in Playing has set the velocity to the impulse *)
C14_Witness ==
  /\ gameState = "playing"
  /\ pipes # <<>> /\ Lt(pipes[1].x, pipes[1].bornAt)
  /\ birdVelocity = jumpStrength
  /\ Cardinality(pending) = 1

(* C15: a frame callback that runs while the session is in Start or GameOver
   changes nothing of the program's state and requests no frame; and in
   GameOver every step other than an activate leaves the score, the high
   score, the gates and the last-spawn and last-frame timestamps as the
   colliding frame left them. *)
C15_NoUpdateOutsidePlaying ==
  [][ /\ (CallbackStep /\ gameState # "playing") =>
           UNCHANGED <<gameState, birdY, birdVelocity, score, highScore, pipes,
                       lastPipeTime, lastFrameTime, animationFrameId, storage,
                       pending, rafNext, nextPipeId, saves>>
      /\ (gameState = "gameover" /\ ~ActivateStep) =>
           UNCHANGED <<gameState, score, highScore, pipes, lastPipeTime,
                       lastFrameTime>>
    ]_vars

(* GameOver, and the callback has run again 1550 ms after the colliding
   frame: the last-frame timestamp is still that of the colliding frame *)
C15_Witness ==
  /\ gameState = "gameover"
  /\ pipes # <<>>
  /\ clock = lastFrameTime + 1550

----------------------------------------------------------------------------
(* the field height minus the ground, now *)
AvailableHeight == Px(sizes.gameHeight - sizes.groundHeight)

(* C16: every gate, active or evicted, has bottom-segment start - top
   height = 170; and where the available height is at least 170 + 2 * 70
   (it does not change in these runs), the top height lies in
   [70, available - 170 - 70] and the bottom segment, available - top
   height - 170, is at least 70 high. *)
C16_GateGeometry ==
  \A g \in Range(pipes) \cup evicted :
    /\ g.bottomY - g.topHeight = Px(170)
    /\ AvailableHeight >= Px(170 + 2 * 70) =>
         /\ g.topHeight >= Px(70)
         /\ g.topHeight <= AvailableHeight - Px(170) - Px(70)
         /\ g.bottomHeight = AvailableHeight - g.topHeight - Px(170)
         /\ g.bottomHeight >= Px(70)

(* a gate created at the smallest available height of the claim, 310, where
   both segments are exactly 70 high, evicted after crossing the field
   while a later gate is active *)
C16_Witness ==
  /\ AvailableHeight = Px(310)
  /\ \E g \in evicted : g.topHeight = Px(70) /\ g.bottomHeight = Px(70)
  /\ pipes # <<>>

----------------------------------------------------------------------------
(* the gates a frame has processed: those still active after it and those
   it evicted *)
Processed == Range(pipes') \cup (evicted' \ evicted)

(* where a processed gate was before the frame: its position in the active
   collection, or the right edge it was created at in this frame *)
Prior(g) == IF g.id \in PipeIds(pipes) THEN Before(g).x ELSE g.bornAt

(* C17 as stated: every Playing frame leaves every gate it processed, the
   one it spawned included, strictly left of where the gate was before. *)
C17_AsStated ==
  [][ (CallbackStep /\ gameState = "playing") =>
        \A g \in Processed : Lt(g.x, Prior(g))
    ]_vars

(* C17, amended: no step moves a gate to the right; a Playing frame whose
   timestamp is greater than the recorded (non-zero) timestamp of the
   previous frame moves every gate it processed strictly to the left; the
   first frame of a session, and a frame with the same timestamp as the
   previous one, leave every gate where it was (the gate the first frame
   spawns stays at the right edge). *)
C17_DecreasesOnPositiveStep ==
  [][ /\ \A g \in Range(pipes') : Le(g.x, Prior(g))
      /\ (CallbackStep /\ gameState = "playing") =>
           \A g \in Processed :
             IF lastFrameTime # 0 /\ clock' > lastFrameTime
             THEN Lt(g.x, Prior(g))
             ELSE g.x = Prior(g)
    ]_vars

(* after the first frame of a session, and a second frame with the same
   timestamp, the gate spawned by the first is still at the right edge *)
C17_Witness ==
  /\ gameState = "playing"
  /\ lastFrameTime > 0
  /\ rafNext >= 4
  /\ nActivates = 1
  /\ Len(pipes) = 1 /\ pipes[1].x = pipes[1].bornAt

----------------------------------------------------------------------------
(* C18: a resize leaves the session state, score, high score, gates,
   timestamps and pending frame requests as they were; in Playing it also
   leaves the flyer's position and velocity; in Start and GameOver it puts
   the flyer at the vertical center of the field and sets its velocity
   to 0. *)
C18_ResizeEffect ==
  [][ ResizeStep =>
        /\ UNCHANGED <<gameState, score, highScore, pipes, lastPipeTime,
                       lastFrameTime, pending, animationFrameId, rafNext,
                       storage>>
        /\ gameState = "playing" => UNCHANGED <<birdY, birdVelocity>>
        /\ gameState \in {"start", "gameover"} =>
             /\ birdY' = Center(sizes')
             /\ birdVelocity' = 0
    ]_vars

(* GameOver after a resize: the flyer, which collided elsewhere with a
   non-zero velocity, is back at the center at rest *)
C18_Witness ==
  /\ gameState = "gameover"
  /\ nResizes = 1
  /\ birdY = Center(sizes)
  /\ birdVelocity = 0

----------------------------------------------------------------------------
(* C19: every gate removed by the filter has its scored flag set, and the
   session's score counts each of them: the evicted gates are among the
   scored gates, whose number is the score. *)
C19_NoUnscoredEviction ==
  /\ \A g \in evicted : g.passed
  /\ {g.id : g \in evicted} \subseteq PassedIds(Range(pipes) \cup evicted)
  /\ score = Cardinality(PassedIds(Range(pipes) \cup evicted))

(* a gate has gone past the eviction line, scored, with the session still
   running and a later gate active *)
C19_Witness ==
  /\ gameState = "playing"
  /\ pipes # <<>>
  /\ \E g \in evicted :
       g.passed /\ Le(Plus(g.x, Double(pipeWidth)), Double(EvictLine))

----------------------------------------------------------------------------
(* no further activate arrives from this state on *)
LeftAlone == ~ENABLED ActivateEarly

(* C20: a Playing session that is left without input, while frames keep
   being delivered at strictly increasing timestamps, reaches GameOver. *)
C20_SessionEnds ==
  (gameState = "playing" /\ LeftAlone) ~> (gameState = "gameover")

(* a session started by one activate and left alone has ended on the
   ground, falling *)
C20_Witness ==
  /\ gameState = "gameover"
  /\ nActivates = 1
  /\ birdVelocity > 0
  /\ birdY + Px(sizes.birdHeight) >= AvailableHeight

====
